---- MODULE Spec2Model ----
(***************************************************************************)
(* Model of the SQLite dialect of gormext (dialects/sqlite/sqlite.go).     *)
(*                                                                         *)
(* Go strings are sequences of one-character strings, so that parsing,     *)
(* formatting, lower-casing, trimming and the key-name regular expression  *)
(* are computed character by character, as the code computes them.         *)
(***************************************************************************)
EXTENDS Integers, Sequences, FiniteSets, TLC

VARIABLES db, field, typed, query, args, ret

vars == <<db, field, typed, query, args, ret>>

(***************************************************************************)
(* Bounds of the model.                                                    *)
(***************************************************************************)
MaxLen == 3          \* longest limit/offset text explored
MaxIntArg == 10      \* integer limit/offset arguments range over -MaxIntArg..MaxIntArg
MaxNameLen == 1      \* longest kind tag, table name and field name of a key name
MaxFields == 1       \* most field names of a key name
NumHandles == 2      \* distinct query handles a caller may supply
MaxCount == 1        \* largest count(*) an introspection query reports
MaxCalls == 2        \* DataTypeOf calls recorded on one descriptor

(***************************************************************************)
(* Characters and strings.                                                 *)
(***************************************************************************)
Digits == <<"0","1","2","3","4","5","6","7","8","9">>
LowerLetters == <<"a","b","c","d","e","f","g","h","i","j","k","l","m","n","o","p","q","r","s","t","u","v","w","x","y","z">>
UpperLetters == <<"A","B","C","D","E","F","G","H","I","J","K","L","M","N","O","P","Q","R","S","T","U","V","W","X","Y","Z">>

Range(s) == {s[i] : i \in DOMAIN s}

IndexOf(c, s) == IF c \in Range(s) THEN CHOOSE i \in DOMAIN s : s[i] = c ELSE 0

\* unicode.ToLower on one character
LowerChar(c) == IF c \in Range(UpperLetters) THEN LowerLetters[IndexOf(c, UpperLetters)] ELSE c

\* strings.ToLower
ToLower(s) == [i \in DOMAIN s |-> LowerChar(s[i])]

\* strings.Join(elems, sep)
RECURSIVE Join(_, _)
Join(elems, sep) ==
    IF elems = <<>> THEN <<>>
    ELSE IF Len(elems) = 1 THEN elems[1]
    ELSE elems[1] \o sep \o Join(Tail(elems), sep)

\* all strings over the characters cs of length at most n
StringsUpTo(cs, n) == UNION {[1..k -> cs] : k \in 0..n}

(***************************************************************************)
(* strconv.ParseInt / ParseUint and the %d verb.                           *)
(* A parse result is [ok, val]; ok = FALSE is a *NumError.  Only bases 0   *)
(* (prefix-driven) and 10 are used.  The texts explored carry no           *)
(* underscore and stay far below 2^63, so the underscore rule and the      *)
(* range error of ParseUint are not reached.                               *)
(***************************************************************************)
ParseError == [ok |-> FALSE, val |-> 0]

\* value of one digit character, -1 for a character that is no digit
DigitVal(c) ==
    IF c \in Range(Digits) THEN IndexOf(c, Digits) - 1
    ELSE IF LowerChar(c) \in Range(LowerLetters) THEN IndexOf(LowerChar(c), LowerLetters) + 9
    ELSE -1

\* the digit loop of ParseUint: n accumulates the value read so far
RECURSIVE ParseDigits(_, _, _)
ParseDigits(s, base, n) ==
    IF s = <<>> THEN [ok |-> TRUE, val |-> n]
    ELSE LET d == DigitVal(Head(s))
         IN IF d < 0 \/ d >= base THEN ParseError
            ELSE ParseDigits(Tail(s), base, n * base + d)

ParseUint(s, base) ==
    IF s = <<>> THEN ParseError
    ELSE IF base = 0
         THEN IF s[1] = "0"
              THEN IF Len(s) >= 3 /\ LowerChar(s[2]) = "b" THEN ParseDigits(SubSeq(s, 3, Len(s)), 2, 0)
                   ELSE IF Len(s) >= 3 /\ LowerChar(s[2]) = "o" THEN ParseDigits(SubSeq(s, 3, Len(s)), 8, 0)
                   ELSE IF Len(s) >= 3 /\ LowerChar(s[2]) = "x" THEN ParseDigits(SubSeq(s, 3, Len(s)), 16, 0)
                   ELSE ParseDigits(Tail(s), 8, 0)
              ELSE ParseDigits(s, 10, 0)
         ELSE ParseDigits(s, base, 0)

ParseInt(s, base) ==
    IF s = <<>> THEN ParseError
    ELSE LET neg == s[1] = "-"
             rest == IF s[1] \in {"+", "-"} THEN Tail(s) ELSE s
             un == ParseUint(rest, base)
         IN IF ~un.ok THEN ParseError
            ELSE [ok |-> TRUE, val |-> IF neg THEN 0 - un.val ELSE un.val]

RECURSIVE FormatUint(_)
FormatUint(n) ==
    IF n < 10 THEN <<Digits[n + 1]>>
    ELSE FormatUint(n \div 10) \o <<Digits[(n % 10) + 1]>>

\* fmt.Sprintf("%d", n)
FormatInt(n) == IF n < 0 THEN <<"-">> \o FormatUint(0 - n) ELSE FormatUint(n)

(***************************************************************************)
(* interface{} values handed to LimitAndOffsetSQL: nil, a string, an int.  *)
(***************************************************************************)
NilValue == [t |-> "nil", s |-> <<>>, i |-> 0]
StringValue(s) == [t |-> "string", s |-> s, i |-> 0]
IntValue(i) == [t |-> "int", s |-> <<>>, i |-> i]

\* fmt.Sprint(value) for a non-nil value
Sprint(value) == IF value.t = "int" THEN FormatInt(value.i) ELSE value.s

parseInt(value) == ParseInt(Sprint(value), 0)

(***************************************************************************)
(* Results of operations.                                                  *)
(***************************************************************************)
NoRet == [op |-> "init", str |-> <<>>, bool |-> FALSE, err |-> FALSE, panic |-> FALSE]
NoArgs == [limit |-> NilValue, offset |-> NilValue, kind |-> <<>>, tableName |-> <<>>, fields |-> <<>>, handle |-> 0]
\* the statement the last operation sent through the handle: the handle it
\* went to, whether it failed, and the count(*) a successful scan stored
NoQuery == [to |-> 0, stmt |-> "none", failed |-> FALSE, count |-> 0]

LimitKw == <<" ","L","I","M","I","T"," ">>
OffsetKw == <<" ","O","F","F","S","E","T"," ">>

\* LimitAndOffsetSQL with the limit test written > 0
LimitAndOffsetSQL_PositiveOnly(limit, offset) ==
    LET parsedLimit == parseInt(limit)
        parsedOffset == parseInt(offset)
        sql1 == IF limit # NilValue /\ parsedLimit.val > 0
                THEN LimitKw \o FormatInt(parsedLimit.val) ELSE <<>>
        sql2 == IF offset # NilValue /\ parsedOffset.val >= 0
                THEN sql1 \o OffsetKw \o FormatInt(parsedOffset.val) ELSE sql1
    IN IF limit # NilValue /\ ~parsedLimit.ok THEN [sql |-> <<>>, err |-> TRUE]
       ELSE IF offset # NilValue /\ ~parsedOffset.ok THEN [sql |-> <<>>, err |-> TRUE]
       ELSE [sql |-> sql2, err |-> FALSE]

\* LimitAndOffsetSQL returning the clause built so far with an offset error
LimitAndOffsetSQL_PartialOnError(limit, offset) ==
    LET parsedLimit == parseInt(limit)
        parsedOffset == parseInt(offset)
        sql1 == IF limit # NilValue /\ parsedLimit.val >= 0
                THEN LimitKw \o FormatInt(parsedLimit.val) ELSE <<>>
        sql2 == IF offset # NilValue /\ parsedOffset.val >= 0
                THEN sql1 \o OffsetKw \o FormatInt(parsedOffset.val) ELSE sql1
    IN IF limit # NilValue /\ ~parsedLimit.ok THEN [sql |-> <<>>, err |-> TRUE]
       ELSE IF offset # NilValue /\ ~parsedOffset.ok THEN [sql |-> sql1, err |-> TRUE]
       ELSE [sql |-> sql2, err |-> FALSE]

\* the (sql, err) pair LimitAndOffsetSQL returns
LimitAndOffsetSQL(limit, offset) ==
    LET parsedLimit == parseInt(limit)
        parsedOffset == parseInt(offset)
        sql1 == IF limit # NilValue /\ parsedLimit.val >= 0
                THEN LimitKw \o FormatInt(parsedLimit.val) ELSE <<>>
        sql2 == IF offset # NilValue /\ parsedOffset.val >= 0
                THEN sql1 \o OffsetKw \o FormatInt(parsedOffset.val) ELSE sql1
    IN IF limit # NilValue /\ ~parsedLimit.ok THEN [sql |-> <<>>, err |-> TRUE]
       ELSE IF offset # NilValue /\ ~parsedOffset.ok THEN [sql |-> <<>>, err |-> TRUE]
       ELSE [sql |-> sql2, err |-> FALSE]

(***************************************************************************)
(* BuildKeyName and keyNameRegex = "[^a-zA-Z0-9]+".                        *)
(***************************************************************************)
\* the characters the regular expression's class does NOT match
KeyNameChars == Range(LowerLetters) \cup Range(UpperLetters) \cup Range(Digits)

keyNameRegex(c) == c \notin KeyNameChars

\* s without its longest prefix matched by the character class
RECURSIVE SkipMatch(_)
SkipMatch(s) ==
    IF s # <<>> /\ keyNameRegex(Head(s)) THEN SkipMatch(Tail(s)) ELSE s

\* ReplaceAllString for the class without its +: every character replaced
RECURSIVE ReplaceAllString_EachChar(_, _)
ReplaceAllString_EachChar(s, repl) ==
    IF s = <<>> THEN <<>>
    ELSE IF keyNameRegex(Head(s)) THEN repl \o ReplaceAllString_EachChar(Tail(s), repl)
    ELSE <<Head(s)>> \o ReplaceAllString_EachChar(Tail(s), repl)

\* keyNameRegex.ReplaceAllString(s, repl): leftmost match, greedy +
RECURSIVE ReplaceAllString(_, _)
ReplaceAllString(s, repl) ==
    IF s = <<>> THEN <<>>
    ELSE IF keyNameRegex(Head(s)) THEN repl \o ReplaceAllString(SkipMatch(Tail(s)), repl)
    ELSE <<Head(s)>> \o ReplaceAllString(Tail(s), repl)

\* fmt.Sprintf("%s_%s_%s", kind, tableName, strings.Join(fields, "_"))
KeyNameFormat(kind, tableName, fields) ==
    kind \o <<"_">> \o tableName \o <<"_">> \o Join(fields, <<"_">>)

BuildKeyName(kind, tableName, fields) ==
    ReplaceAllString(KeyNameFormat(kind, tableName, fields), <<"_">>)

(***************************************************************************)
(* Field descriptors (gorm.StructField) as DataTypeOf sees them.           *)
(* kind is the reflect.Kind of the field's value, isTime says that a       *)
(* struct is a time.Time, elemUint8 that an array or slice has element     *)
(* type uint8; TagSettings maps setting names to their text.               *)
(***************************************************************************)
IntKinds == {"Int", "Int8", "Int16", "Int32", "Uint", "Uint8", "Uint16", "Uint32", "Uintptr"}
Int64Kinds == {"Int64", "Uint64"}
FloatKinds == {"Float32", "Float64"}
OtherKinds == {"Complex64", "Complex128", "Chan", "Func", "Interface", "Map", "UnsafePointer"}
Kinds == {"Bool", "String", "Struct", "Array", "Slice"} \cup IntKinds \cup Int64Kinds \cup FloatKinds \cup OtherKinds

AutoIncrementKey == <<"A","U","T","O","_","I","N","C","R","E","M","E","N","T">>
StrFalse == <<"f","a","l","s","e">>

TInteger == <<"i","n","t","e","g","e","r">>
TAutoIncrement == <<"i","n","t","e","g","e","r"," ","p","r","i","m","a","r","y"," ","k","e","y"," ","a","u","t","o","i","n","c","r","e","m","e","n","t">>
TBigint == <<"b","i","g","i","n","t">>
TBool == <<"b","o","o","l">>
TReal == <<"r","e","a","l">>
TText == <<"t","e","x","t">>
TDatetime == <<"d","a","t","e","t","i","m","e">>
TBlob == <<"b","l","o","b">>
TVarchar(size) == <<"v","a","r","c","h","a","r","(">> \o FormatInt(size) \o <<")">>

VarcharLimit == 65532
DefaultSize == 255

\* field.TagSettingsGet(key): (value, ok)
TagSettingsGet(f, key) ==
    IF key \in DOMAIN f.TagSettings
    THEN [value |-> f.TagSettings[key], ok |-> TRUE]
    ELSE [value |-> <<>>, ok |-> FALSE]

\* field.TagSettingsSet(key, value)
TagSettingsSet(f, key, value) ==
    [f EXCEPT !.TagSettings =
        [k \in DOMAIN f.TagSettings \cup {key} |-> IF k = key THEN value ELSE f.TagSettings[k]]]

IsSpace(c) == c \in {" ", "\t", "\n", "\r"}

RECURSIVE TrimLeft(_)
TrimLeft(s) == IF s # <<>> /\ IsSpace(Head(s)) THEN TrimLeft(Tail(s)) ELSE s

RECURSIVE TrimRight(_)
TrimRight(s) == IF s # <<>> /\ IsSpace(s[Len(s)]) THEN TrimRight(SubSeq(s, 1, Len(s) - 1)) ELSE s

\* strings.TrimSpace
TrimSpace(s) == TrimRight(TrimLeft(s))

\* strconv.Atoi with the error dropped: size, _ = strconv.Atoi(num)
Atoi(s) == ParseInt(s, 10).val

\* gorm.ParseFieldStructForDialect: the value's kind, the TYPE setting, the
\* SIZE setting (255 when absent) and the NOT NULL / UNIQUE / DEFAULT text
ParseFieldStructForDialect(f) ==
    LET size == IF TagSettingsGet(f, "SIZE").ok THEN Atoi(TagSettingsGet(f, "SIZE").value) ELSE DefaultSize
        base == TagSettingsGet(f, "NOT NULL").value \o <<" ">> \o TagSettingsGet(f, "UNIQUE").value
        additionalType == IF TagSettingsGet(f, "DEFAULT").ok
                          THEN base \o <<" ","D","E","F","A","U","L","T"," ">> \o TagSettingsGet(f, "DEFAULT").value
                          ELSE base
    IN [kind |-> f.kind, isTime |-> f.isTime, elemUint8 |-> f.elemUint8,
        sqlType |-> TagSettingsGet(f, "TYPE").value, size |-> size, additionalType |-> additionalType]

\* gorm.IsByteArrayOrSlice
IsByteArrayOrSlice(dataValue) == dataValue.kind \in {"Array", "Slice"} /\ dataValue.elemUint8

\* fieldCanAutoIncrement comparing the setting without strings.ToLower
fieldCanAutoIncrement_NoLower(f) ==
    IF TagSettingsGet(f, "AUTO_INCREMENT").ok
    THEN TagSettingsGet(f, "AUTO_INCREMENT").value # StrFalse
    ELSE f.IsPrimaryKey

\* fieldCanAutoIncrement accepting only the setting "true"
fieldCanAutoIncrement_OnlyTrue(f) ==
    IF TagSettingsGet(f, "AUTO_INCREMENT").ok
    THEN ToLower(TagSettingsGet(f, "AUTO_INCREMENT").value) = <<"t","r","u","e">>
    ELSE f.IsPrimaryKey

fieldCanAutoIncrement(f) ==
    IF TagSettingsGet(f, "AUTO_INCREMENT").ok
    THEN ToLower(TagSettingsGet(f, "AUTO_INCREMENT").value) # StrFalse
    ELSE f.IsPrimaryKey

\* the integer cases with TagSettingsSet moved out of the if
AutoIncrementType_AlwaysMark(f, plain) ==
    IF fieldCanAutoIncrement(f)
    THEN [sqlType |-> TAutoIncrement, field |-> TagSettingsSet(f, "AUTO_INCREMENT", AutoIncrementKey)]
    ELSE [sqlType |-> plain, field |-> TagSettingsSet(f, "AUTO_INCREMENT", AutoIncrementKey)]

\* the body shared by the two integer cases: mark and emit the auto-increment
\* type when the field can auto-increment, else emit the plain type
AutoIncrementType(f, plain) ==
    IF fieldCanAutoIncrement(f)
    THEN [sqlType |-> TAutoIncrement, field |-> TagSettingsSet(f, "AUTO_INCREMENT", AutoIncrementKey)]
    ELSE [sqlType |-> plain, field |-> f]

\* the string case with the upper test written <=
StringType_Inclusive(size) ==
    IF size > 0 /\ size <= VarcharLimit THEN TVarchar(size) ELSE TText

\* the string case
StringType(size) ==
    IF size > 0 /\ size < VarcharLimit THEN TVarchar(size) ELSE TText

\* The switch of DataTypeOf: the inferred sqlType ("" when no case assigns
\* one) and the descriptor as the switch leaves it.
InferType(f, dataValue) ==
    IF dataValue.kind = "Bool" THEN [sqlType |-> TBool, field |-> f]
    ELSE IF dataValue.kind \in IntKinds THEN AutoIncrementType(f, TInteger)
    ELSE IF dataValue.kind \in Int64Kinds THEN AutoIncrementType(f, TBigint)
    ELSE IF dataValue.kind \in FloatKinds THEN [sqlType |-> TReal, field |-> f]
    ELSE IF dataValue.kind = "String" THEN [sqlType |-> StringType(dataValue.size), field |-> f]
    ELSE IF dataValue.kind = "Struct"
         THEN IF dataValue.isTime THEN [sqlType |-> TDatetime, field |-> f]
              ELSE [sqlType |-> <<>>, field |-> f]
    ELSE IF IsByteArrayOrSlice(dataValue) THEN [sqlType |-> TBlob, field |-> f]
    ELSE [sqlType |-> <<>>, field |-> f]

\* the type override if there is one, else the switch (line 131)
SqlTypeOf(f, dataValue) ==
    IF dataValue.sqlType = <<>> THEN InferType(f, dataValue)
    ELSE [sqlType |-> dataValue.sqlType, field |-> f]

\* the end of DataTypeOf without the check that panics on an empty sqlType
ReturnType_NoPanic(inferred, additionalType) ==
    IF TrimSpace(additionalType) = <<>>
    THEN [str |-> inferred.sqlType, sqlType |-> inferred.sqlType, panic |-> FALSE, field |-> inferred.field]
    ELSE [str |-> inferred.sqlType \o <<" ">> \o additionalType, sqlType |-> inferred.sqlType,
          panic |-> FALSE, field |-> inferred.field]

\* the end of DataTypeOf: panic on an empty sqlType, else return it, followed
\* by the additional type when that is not blank
ReturnType(inferred, additionalType) ==
    IF inferred.sqlType = <<>>
    THEN [str |-> <<>>, sqlType |-> <<>>, panic |-> TRUE, field |-> inferred.field]
    ELSE IF TrimSpace(additionalType) = <<>>
    THEN [str |-> inferred.sqlType, sqlType |-> inferred.sqlType, panic |-> FALSE, field |-> inferred.field]
    ELSE [str |-> inferred.sqlType \o <<" ">> \o additionalType, sqlType |-> inferred.sqlType,
          panic |-> FALSE, field |-> inferred.field]

\* DataTypeOf after gorm.ParseFieldStructForDialect has read the descriptor
DataTypeOfParsed(f, dataValue) == ReturnType(SqlTypeOf(f, dataValue), dataValue.additionalType)

\* DataTypeOf: the string returned (str), the local sqlType behind it, whether
\* the call panicked instead of returning, and the descriptor afterwards.
DataTypeOf(f) == DataTypeOfParsed(f, ParseFieldStructForDialect(f))

(***************************************************************************)
(* The descriptors, handles and inputs explored.                           *)
(***************************************************************************)
Unset == [set |-> FALSE, v |-> <<>>]
Setting(v) == [set |-> TRUE, v |-> v]

TagNames == {"AUTO_INCREMENT", "TYPE", "NOT NULL", "SIZE"}

MkTags(ai, ty, nn, sz) ==
    LET c == [k \in TagNames |->
                 IF k = "AUTO_INCREMENT" THEN ai
                 ELSE IF k = "TYPE" THEN ty
                 ELSE IF k = "NOT NULL" THEN nn
                 ELSE sz]
    IN [k \in {n \in TagNames : c[n].set} |-> c[k].v]

AutoIncrementChoices ==
    {Unset, Setting(<<"t","r","u","e">>), Setting(StrFalse), Setting(<<"F","A","L","S","E">>)}
TypeChoices == {Unset, Setting(<<"j","s","o","n","b">>)}
NotNullChoices == {Unset, Setting(<<"N","O","T"," ","N","U","L","L">>)}
SizeChoices ==
    {Unset, Setting(<<"-","1">>), Setting(<<"0">>), Setting(<<"1">>), Setting(<<"2","0","0">>),
     Setting(<<"6","5","5","3","1">>), Setting(<<"6","5","5","3","2">>), Setting(<<"6","5","5","3","3">>)}

\* a declared size is explored on string fields, the only ones that read it
TagSets(kind) ==
    {MkTags(ai, ty, nn, sz) : ai \in AutoIncrementChoices, ty \in TypeChoices, nn \in NotNullChoices,
                              sz \in IF kind = "String" THEN SizeChoices ELSE {Unset}}

Shapes ==
    {[kind |-> k, isTime |-> t, elemUint8 |-> e] : k \in Kinds, t \in BOOLEAN, e \in BOOLEAN} \cap
    {sh \in [kind : Kinds, isTime : BOOLEAN, elemUint8 : BOOLEAN] :
        /\ sh.isTime => sh.kind = "Struct"
        /\ sh.elemUint8 => sh.kind \in {"Array", "Slice"}}

Fields ==
    UNION {{[kind |-> sh.kind, isTime |-> sh.isTime, elemUint8 |-> sh.elemUint8,
             IsPrimaryKey |-> pk, TagSettings |-> t] : pk \in BOOLEAN, t \in TagSets(sh.kind)} : sh \in Shapes}

NilDB == 0
Handles == 1..NumHandles

\* what QueryRow(...).Scan(&count) does: fail, or store the count
ScanOutcomes == [failed : BOOLEAN, count : 0..MaxCount]

\* a *string the row scan may fill in
NilPtr == [nil |-> TRUE, s |-> <<>>]
Ptr(s) == [nil |-> FALSE, s |-> s]
\* what QueryRow("PRAGMA database_list").Scan(ifaces...) does: pointers[1]
\* as the scan leaves it, and whether the scan reported an error
RowOutcomes == [failed : BOOLEAN, name : {NilPtr, Ptr(<<"m","a","i","n">>)}]

LimitChars == {"0", "1", "-", "x"}
LimitInputs ==
    {NilValue} \cup {StringValue(s) : s \in StringsUpTo(LimitChars, MaxLen)}
               \cup {IntValue(i) : i \in (0 - MaxIntArg)..MaxIntArg}
SampleValues == {NilValue, IntValue(5), StringValue(<<"a","b","c">>)}

KeyChars == {"a", "7", "_", " "}
ExampleKey == [kind |-> <<"i","d","x">>,
               tableName |-> <<"u","s","e","r"," ","a","c","c","o","u","n","t","s">>,
               fields |-> <<(<<"f","i","r","s","t"," ","n","a","m","e">>), (<<"e","m","a","i","l">>)>>]
KeyInputs ==
    {ExampleKey} \cup
    {[kind |-> k, tableName |-> t, fields |-> fs] :
        k \in StringsUpTo(KeyChars, MaxNameLen), t \in StringsUpTo(KeyChars, MaxNameLen),
        fs \in StringsUpTo(StringsUpTo(KeyChars, MaxNameLen), MaxFields)}

(***************************************************************************)
(* The operations of the dialect, one action each.                         *)
(***************************************************************************)
Returned(op) == [NoRet EXCEPT !.op = op]
Panicked(op) == [NoRet EXCEPT !.op = op, !.panic = TRUE]

\* an operation that touches neither the handle nor a descriptor
Pure(r, a) ==
    /\ ret' = r
    /\ args' = a
    /\ query' = NoQuery
    /\ UNCHANGED <<db, field, typed>>

\* SetDB that drops the handle instead of storing it
SetDB_NoStore(h) ==
    /\ db' = db
    /\ ret' = Returned("SetDB")
    /\ args' = [NoArgs EXCEPT !.handle = h]
    /\ query' = NoQuery
    /\ UNCHANGED <<field, typed>>

SetDB(h) ==
    /\ db' = h
    /\ ret' = Returned("SetDB")
    /\ args' = [NoArgs EXCEPT !.handle = h]
    /\ query' = NoQuery
    /\ UNCHANGED <<field, typed>>

BindVar == Pure([Returned("BindVar") EXCEPT !.str = <<"$","$","$">>], NoArgs)

Quote(key) == Pure([Returned("Quote") EXCEPT !.str = <<"\"">> \o key \o <<"\"">>], [NoArgs EXCEPT !.tableName = key])

HasForeignKey == Pure([Returned("HasForeignKey") EXCEPT !.bool = FALSE], NoArgs)

DefaultValueStr ==
    Pure([Returned("DefaultValueStr") EXCEPT !.str = <<"D","E","F","A","U","L","T"," ","V","A","L","U","E","S">>], NoArgs)

GetName == Pure([Returned("GetName") EXCEPT !.str = <<"s","q","l","i","t","e">>], NoArgs)

DoLimitAndOffsetSQL(limit, offset) ==
    LET r == LimitAndOffsetSQL(limit, offset)
    IN Pure([Returned("LimitAndOffsetSQL") EXCEPT !.str = r.sql, !.err = r.err],
            [NoArgs EXCEPT !.limit = limit, !.offset = offset])

DoBuildKeyName(k) ==
    Pure([Returned("BuildKeyName") EXCEPT !.str = BuildKeyName(k.kind, k.tableName, k.fields)],
         [NoArgs EXCEPT !.kind = k.kind, !.tableName = k.tableName, !.fields = k.fields])

\* one DataTypeOf call on the descriptor; typed records the calls made on it
Typed(r) ==
    /\ field' = r.field
    /\ typed' = Append(typed, [before |-> field, after |-> r.field, str |-> r.str,
                               sqlType |-> r.sqlType, panic |-> r.panic])
    /\ ret' = [Returned("DataTypeOf") EXCEPT !.str = r.str, !.panic = r.panic]

DoDataTypeOf ==
    /\ Len(typed) < MaxCalls
    /\ Typed(DataTypeOf(field))
    /\ args' = NoArgs
    /\ query' = NoQuery
    /\ UNCHANGED db

\* s.db.Exec(stmt) or s.db.QueryRow(stmt) on the stored handle; a nil
\* interface panics on the method call and no statement is issued
Issue(op, stmt, failed, count, r) ==
    /\ IF db = NilDB
       THEN /\ query' = NoQuery
            /\ ret' = Panicked(op)
       ELSE /\ query' = [to |-> db, stmt |-> stmt, failed |-> failed, count |-> count]
            /\ ret' = r
    /\ args' = NoArgs
    /\ UNCHANGED <<db, field, typed>>

\* var count int; ....Scan(&count): the error of Scan is dropped
ScanCount(o) == IF o.failed THEN 0 ELSE o.count

HasIndex(o) == Issue("HasIndex", "SELECT count(*) index", o.failed, ScanCount(o),
                     [Returned("HasIndex") EXCEPT !.bool = ScanCount(o) > 0])

HasTable(o) == Issue("HasTable", "SELECT count(*) table", o.failed, ScanCount(o),
                     [Returned("HasTable") EXCEPT !.bool = ScanCount(o) > 0])

HasColumn(o) == Issue("HasColumn", "SELECT count(*) column", o.failed, ScanCount(o),
                      [Returned("HasColumn") EXCEPT !.bool = ScanCount(o) > 0])

\* CurrentDatabase without the test of Scan's error
DatabaseName_IgnoreError(o) ==
    IF ~o.name.nil THEN o.name.s
    ELSE <<>>

\* the name CurrentDatabase returns for a scan outcome
DatabaseName(o) ==
    IF o.failed THEN <<>>
    ELSE IF ~o.name.nil THEN o.name.s
    ELSE <<>>

CurrentDatabase(o) == Issue("CurrentDatabase", "PRAGMA database_list", o.failed, 0,
                            [Returned("CurrentDatabase") EXCEPT !.str = DatabaseName(o)])

RemoveIndex(failed) == Issue("RemoveIndex", "DROP INDEX", failed, 0,
                             [Returned("RemoveIndex") EXCEPT !.err = failed])

ModifyColumn(failed) == Issue("ModifyColumn", "ALTER TABLE", failed, 0,
                              [Returned("ModifyColumn") EXCEPT !.err = failed])

(***************************************************************************)
(* Specifications.                                                         *)
(***************************************************************************)
\* init(): gorm.RegisterDialect("sqlite", &sqlite3{}) -- no handle yet
Registered ==
    /\ db = NilDB
    /\ typed = <<>>
    /\ query = NoQuery
    /\ args = NoArgs
    /\ ret = NoRet

\* the whole dialect, on a descriptor of one of the sample kinds
SampleKinds == {"Int", "Int64", "String", "Struct"}
SampleFields == {f \in Fields : f.kind \in SampleKinds /\ DOMAIN f.TagSettings \subseteq {"AUTO_INCREMENT", "TYPE"}}

Init == Registered /\ field \in SampleFields

Next ==
    \/ \E h \in Handles : SetDB(h)
    \/ BindVar
    \/ \E key \in {<<"a">>, <<"a", "\"">>} : Quote(key)
    \/ HasForeignKey
    \/ DefaultValueStr
    \/ GetName
    \/ \E l \in SampleValues, o \in SampleValues : DoLimitAndOffsetSQL(l, o)
    \/ DoBuildKeyName(ExampleKey)
    \/ DoDataTypeOf
    \/ \E o \in ScanOutcomes : HasIndex(o)
    \/ \E o \in ScanOutcomes : HasTable(o)
    \/ \E o \in ScanOutcomes : HasColumn(o)
    \/ \E o \in RowOutcomes : CurrentDatabase(o)
    \/ \E failed \in BOOLEAN : RemoveIndex(failed)
    \/ \E failed \in BOOLEAN : ModifyColumn(failed)

Spec == Init /\ [][Next]_vars

\* DataTypeOf alone, called repeatedly on every descriptor
InitType == Registered /\ field \in Fields

NextType == DoDataTypeOf

SpecType == InitType /\ [][NextType]_vars

\* a descriptor no operation of the two specifications below reads
PlainField == [kind |-> "String", isTime |-> FALSE, elemUint8 |-> FALSE,
               IsPrimaryKey |-> FALSE, TagSettings |-> MkTags(Unset, Unset, Unset, Unset)]

InitPure == Registered /\ field = PlainField

\* LimitAndOffsetSQL applied once to every pair of inputs
NextLimit == ret = NoRet /\ \E l \in LimitInputs, o \in LimitInputs : DoLimitAndOffsetSQL(l, o)

SpecLimit == InitPure /\ [][NextLimit]_vars

\* BuildKeyName applied once to every input
NextKey == ret = NoRet /\ \E k \in KeyInputs : DoBuildKeyName(k)

SpecKey == InitPure /\ [][NextKey]_vars

(***************************************************************************)
(* Properties of LimitAndOffsetSQL (specification SpecLimit).              *)
(***************************************************************************)
\* an input that is absent or parses as an integer
WellFormed(v) == v = NilValue \/ parseInt(v).ok

\* the text an input contributes after its keyword
ClauseOf(kw, v) ==
    IF v # NilValue /\ parseInt(v).val >= 0 THEN kw \o FormatInt(parseInt(v).val) ELSE <<>>

\* C1: when both inputs are absent or parse, LimitAndOffsetSQL returns no
\* error and exactly " LIMIT <n>" (limit supplied, n >= 0) followed by
\* " OFFSET <m>" (offset supplied, m >= 0); the spec's three examples hold.
C1_LimitOffsetClause ==
    ret.op = "LimitAndOffsetSQL" =>
        /\ (WellFormed(args.limit) /\ WellFormed(args.offset)) =>
              /\ ~ret.err
              /\ ret.str = ClauseOf(LimitKw, args.limit) \o ClauseOf(OffsetKw, args.offset)
        /\ (args.limit = IntValue(10) /\ args.offset = IntValue(0)) =>
              ret.str = <<" ","L","I","M","I","T"," ","1","0"," ","O","F","F","S","E","T"," ","0">>
        /\ (args.limit = NilValue /\ args.offset = IntValue(5)) =>
              ret.str = <<" ","O","F","F","S","E","T"," ","5">>
        /\ (args.limit = IntValue(0 - 1) /\ args.offset = NilValue) => ret.str = <<>>
        /\ (args.limit = StringValue(<<"-","1">>) /\ args.offset = StringValue(<<"1","0">>)) =>
              ret.str = <<" ","O","F","F","S","E","T"," ","1","0">>

\* a call with a non-negative limit and a non-negative offset, both as text
C1_Witness ==
    /\ ret.op = "LimitAndOffsetSQL"
    /\ args.limit = StringValue(<<"1","0">>)
    /\ args.offset = StringValue(<<"0">>)
    /\ ret.str = <<" ","L","I","M","I","T"," ","1","0"," ","O","F","F","S","E","T"," ","0">>

\* an input that is supplied and does not parse
Malformed(v) == v # NilValue /\ ~parseInt(v).ok

\* C2: LimitAndOffsetSQL returns an error exactly when a supplied limit or a
\* supplied offset does not parse, and the clause returned with an error is
\* empty, also when the limit was valid and only the offset is malformed.
C2_ErrorIffMalformed ==
    ret.op = "LimitAndOffsetSQL" =>
        /\ ret.err <=> (Malformed(args.limit) \/ Malformed(args.offset))
        /\ ret.err => ret.str = <<>>
        /\ (args.limit = NilValue /\ args.offset = NilValue) => ~ret.err

\* a valid non-negative limit with a malformed offset
C2_Witness ==
    /\ ret.op = "LimitAndOffsetSQL"
    /\ args.limit = IntValue(10)
    /\ args.offset = StringValue(<<"1","x">>)
    /\ ret.err
    /\ ret.str = <<>>

(***************************************************************************)
(* Properties of BuildKeyName (specification SpecKey).                     *)
(***************************************************************************)
\* kind + "_" + table + "_" + the fields joined by "_"
Joined == args.kind \o <<"_">> \o args.tableName \o <<"_">> \o Join(args.fields, <<"_">>)

IsAlnum(c) == c \in KeyNameChars

\* s with every maximal run of non-alphanumeric characters turned into one
\* underscore: keep the alphanumeric characters and the first of each run
Collapsed(s) ==
    LET Kept(i) == IsAlnum(s[i]) \/ i = 1 \/ IsAlnum(s[i - 1])
        idx == SelectSeq([i \in 1..Len(s) |-> i], Kept)
    IN [j \in DOMAIN idx |-> IF IsAlnum(s[idx[j]]) THEN s[idx[j]] ELSE "_"]

\* C8: BuildKeyName returns the joined name with every maximal run of
\* non-alphanumeric characters replaced by exactly one underscore: only
\* letters, digits and underscores, never two underscores in a row, the
\* alphanumeric characters kept in order, and sanitizing again changes nothing.
C8_KeyNameSanitized ==
    ret.op = "BuildKeyName" =>
        /\ ret.str = Collapsed(Joined)
        /\ \A i \in DOMAIN ret.str : IsAlnum(ret.str[i]) \/ ret.str[i] = "_"
        /\ \A i \in 1..(Len(ret.str) - 1) : ~(ret.str[i] = "_" /\ ret.str[i + 1] = "_")
        /\ SelectSeq(ret.str, IsAlnum) = SelectSeq(Joined, IsAlnum)
        /\ ReplaceAllString(ret.str, <<"_">>) = ret.str
        /\ args = [NoArgs EXCEPT !.kind = ExampleKey.kind, !.tableName = ExampleKey.tableName,
                                 !.fields = ExampleKey.fields] =>
              ret.str = <<"i","d","x","_","u","s","e","r","_","a","c","c","o","u","n","t","s","_",
                          "f","i","r","s","t","_","n","a","m","e","_","e","m","a","i","l">>

\* a key name whose table is a space between the two separators: a run of three
C8_Witness ==
    /\ ret.op = "BuildKeyName"
    /\ args.kind = <<"a">>
    /\ args.tableName = <<" ">>
    /\ args.fields = <<(<<"7">>)>>
    /\ ret.str = <<"a", "_", "7">>

(***************************************************************************)
(* Properties of DataTypeOf (specification SpecType).                      *)
(***************************************************************************)
Calls == DOMAIN typed

\* the descriptor carries an explicit type override
HasOverride(f) == "TYPE" \in DOMAIN f.TagSettings /\ f.TagSettings["TYPE"] # <<>>

IsIntegerKind(f) == f.kind \in IntKinds \cup Int64Kinds

HasAutoIncrementTag(f) == "AUTO_INCREMENT" \in DOMAIN f.TagSettings

\* the AUTO_INCREMENT setting is present with a value other than "false"
TagNotFalse(f) == HasAutoIncrementTag(f) /\ ToLower(f.TagSettings["AUTO_INCREMENT"]) # StrFalse

IsMarked(f) == HasAutoIncrementTag(f) /\ f.TagSettings["AUTO_INCREMENT"] = AutoIncrementKey

PlainIntegerType(f) == IF f.kind \in Int64Kinds THEN TBigint ELSE TInteger

\* what the integer cases do to call e when the field is eligible or not
IntegerCaseAsClaimed(e, eligible) ==
    IF eligible
    THEN ~e.panic /\ e.sqlType = TAutoIncrement /\ IsMarked(e.after)
    ELSE ~e.panic /\ e.sqlType = PlainIntegerType(e.before)

\* C3 as stated: an integer field without override is eligible when the
\* AUTO_INCREMENT tag is absent or true, or when the field is primary key.
C3_Original ==
    \A i \in Calls :
        (~HasOverride(typed[i].before) /\ IsIntegerKind(typed[i].before)) =>
            IntegerCaseAsClaimed(typed[i],
                \/ ~HasAutoIncrementTag(typed[i].before)
                \/ TagNotFalse(typed[i].before)
                \/ typed[i].before.IsPrimaryKey)

\* C3 amended: an integer field without override is eligible when the
\* AUTO_INCREMENT tag is present with a value other than "false" (in any
\* letter case), or when the tag is absent and the field is primary key; an
\* eligible field is marked and gets `integer primary key autoincrement`,
\* any other gets `integer` (small/medium kinds) or `bigint` (64-bit kinds).
C3_AutoIncrementEligibility ==
    \A i \in Calls :
        (~HasOverride(typed[i].before) /\ IsIntegerKind(typed[i].before)) =>
            IntegerCaseAsClaimed(typed[i],
                \/ TagNotFalse(typed[i].before)
                \/ (~HasAutoIncrementTag(typed[i].before) /\ typed[i].before.IsPrimaryKey))

\* an untagged integer field that is not primary key got plain `integer`
\* and no mark
C3_Witness ==
    /\ typed # <<>>
    /\ typed[1].before.kind = "Int"
    /\ ~typed[1].before.IsPrimaryKey
    /\ ~HasOverride(typed[1].before)
    /\ ~HasAutoIncrementTag(typed[1].before)
    /\ typed[1].sqlType = TInteger
    /\ typed[1].after = typed[1].before

\* C4: a second DataTypeOf call on a descriptor on which the first returned
\* returns the identical string and leaves the tag settings as the first
\* call left them.
C4_DataTypeOfIdempotent ==
    \A i \in Calls : \A j \in Calls :
        (i < j /\ ~typed[i].panic) =>
            /\ ~typed[j].panic
            /\ typed[j].str = typed[i].str
            /\ typed[j].after.TagSettings = typed[i].after.TagSettings

\* two calls, the first of which marked an untagged primary key
C4_Witness ==
    /\ Len(typed) >= 2
    /\ ~HasAutoIncrementTag(typed[1].before)
    /\ IsMarked(typed[1].after)
    /\ typed[2].sqlType = TAutoIncrement

\* the kinds DataTypeOf has a type for
IsMappable(f) ==
    \/ f.kind = "Bool"
    \/ IsIntegerKind(f)
    \/ f.kind \in {"Float32", "Float64"}
    \/ f.kind = "String"
    \/ (f.kind = "Struct" /\ f.isTime)
    \/ (f.kind \in {"Array", "Slice"} /\ f.elemUint8)

\* C5: a DataTypeOf call that returns emits a non-empty base type; without
\* override, a kind outside boolean, integer, float, string, time struct and
\* byte array/slice panics instead of returning; with an override no call
\* panics, whatever the kind.
C5_UnmappablePanics ==
    \A i \in Calls :
        /\ ~typed[i].panic => (typed[i].sqlType # <<>> /\ typed[i].str # <<>>)
        /\ (~HasOverride(typed[i].before) /\ ~IsMappable(typed[i].before)) =>
              (typed[i].panic /\ typed[i].str = <<>>)
        /\ HasOverride(typed[i].before) => ~typed[i].panic

\* a slice of non-bytes without override panicked
C5_Witness ==
    /\ typed # <<>>
    /\ typed[1].before.kind = "Slice"
    /\ ~typed[1].before.elemUint8
    /\ ~HasOverride(typed[1].before)
    /\ typed[1].panic

\* the size DataTypeOf sees: the SIZE setting read as a decimal, 255 when absent
DeclaredSize(f) == ParseFieldStructForDialect(f).size

SizeTagIs(f, text) == "SIZE" \in DOMAIN f.TagSettings /\ f.TagSettings["SIZE"] = text

\* C7: a string field without override gets varchar(<size>) exactly when
\* 0 < size < 65532 and text for every other size.
C7_VarcharBounds ==
    \A i \in Calls :
        (~HasOverride(typed[i].before) /\ typed[i].before.kind = "String") =>
            /\ ~typed[i].panic
            /\ (0 < DeclaredSize(typed[i].before) /\ DeclaredSize(typed[i].before) < 65532) =>
                  typed[i].sqlType = <<"v","a","r","c","h","a","r","(">>
                                     \o FormatInt(DeclaredSize(typed[i].before)) \o <<")">>
            /\ (DeclaredSize(typed[i].before) <= 0 \/ DeclaredSize(typed[i].before) >= 65532) =>
                  typed[i].sqlType = TText
            /\ SizeTagIs(typed[i].before, <<"2","0","0">>) =>
                  typed[i].sqlType = <<"v","a","r","c","h","a","r","(","2","0","0",")">>
            /\ SizeTagIs(typed[i].before, <<"6","5","5","3","1">>) =>
                  typed[i].sqlType = <<"v","a","r","c","h","a","r","(","6","5","5","3","1",")">>
            /\ (SizeTagIs(typed[i].before, <<"0">>) \/ SizeTagIs(typed[i].before, <<"6","5","5","3","2">>)) =>
                  typed[i].sqlType = TText

\* a string field declared at the bound itself got text
C7_Witness ==
    /\ typed # <<>>
    /\ typed[1].before.kind = "String"
    /\ ~HasOverride(typed[1].before)
    /\ SizeTagIs(typed[1].before, <<"6","5","5","3","2">>)
    /\ typed[1].sqlType = TText

(***************************************************************************)
(* Properties of the whole dialect (specification Spec).                   *)
(***************************************************************************)
\* the last operation sent a statement through a handle
Issued == query.stmt # "none"

\* C6: HasTable, HasColumn and HasIndex return false and CurrentDatabase
\* returns "" whenever the query they issued failed, without error or panic;
\* the three return true only after a successful query with a count above 0.
C6_IntrospectionFailureSwallowed ==
    /\ ret.op \in {"HasIndex", "HasTable", "HasColumn"} =>
          /\ (Issued /\ query.failed) => (~ret.bool /\ ~ret.err /\ ~ret.panic)
          /\ ret.bool => (Issued /\ ~query.failed /\ query.count > 0)
    /\ (ret.op = "CurrentDatabase" /\ Issued /\ query.failed) =>
          (ret.str = <<>> /\ ~ret.err /\ ~ret.panic)

\* a failed current-database query on a supplied handle
C6_Witness ==
    /\ ret.op = "CurrentDatabase"
    /\ Issued
    /\ query.to \in Handles
    /\ query.failed
    /\ ret.str = <<>>

\* the tag settings t with the auto-increment marker set
Marked(t) ==
    [k \in DOMAIN t \cup {"AUTO_INCREMENT"} |-> IF k = "AUTO_INCREMENT" THEN AutoIncrementKey ELSE t[k]]

\* C9: only DataTypeOf changes a descriptor, only by setting AUTO_INCREMENT,
\* and only for an integer field without override that can auto-increment,
\* which is exactly when it emits `integer primary key autoincrement`; in
\* every other case, and in every other operation, the descriptor is as before.
C9_OnlyAutoIncrementMark ==
    [][IF Len(typed') = Len(typed) + 1
       THEN LET e == typed'[Len(typed')]
                marks == /\ ~HasOverride(field)
                         /\ IsIntegerKind(field)
                         /\ (TagNotFalse(field) \/ (~HasAutoIncrementTag(field) /\ field.IsPrimaryKey))
            IN /\ marks <=> (~HasOverride(field) /\ IsIntegerKind(field) /\ e.sqlType = TAutoIncrement)
               /\ marks => field' = [field EXCEPT !.TagSettings = Marked(field.TagSettings)]
               /\ ~marks => field' = field
       ELSE field' = field]_vars

\* a descriptor DataTypeOf marked, seen after a later HasTable
C9_Witness ==
    /\ typed # <<>>
    /\ typed[1].after # typed[1].before
    /\ field = typed[Len(typed)].after
    /\ ret.op = "HasTable"

\* C10 as stated: after operations other than the SetDB that supplied it,
\* the translator retains no handle.
C10_Original == ret.op # "SetDB" => db = NilDB

\* C10 amended: the translator retains the handle the latest SetDB supplied
\* (none before the first SetDB); no other operation changes the retained
\* handle, and every statement goes to the retained handle.
C10_HandleRetained ==
    [][/\ ret'.op = "SetDB" => db' = args'.handle
       /\ ret'.op # "SetDB" => db' = db
       /\ query'.stmt # "none" => (query'.to = db' /\ db' \in Handles)]_vars

\* a query that went to the second handle, supplied by an earlier SetDB
C10_Witness ==
    /\ ret.op = "HasTable"
    /\ Issued
    /\ db = 2
    /\ query.to = 2

====
